---- MODULE Spec2Model ----
(***************************************************************************)
(* BaseRepository (backend/src/repositories/base.py): a generic           *)
(* asynchronous repository over one entity type.  Every operation opens   *)
(* its own session, runs one statement, commits when it mutates, and      *)
(* wraps any failure in `raise DatabaseError(...) from e`.                *)
(*                                                                         *)
(* The entity type is external to the repository; the model uses the      *)
(* entity of the specification's scenario: id (generated), name, flag.    *)
(* Each `await` of the code is one step, so concurrent callers interleave *)
(* exactly where the coroutines can be suspended.                         *)
(***************************************************************************)
EXTENDS Integers, Sequences, FiniteSets, TLC

\* ------------------------------------------------------------ bounds
\* Number of ids the storage hands out in a run (bounds the inserts).
MaxId == 2

\* The concurrent callers of the one repository instance.
Procs == {"p1", "p2"}
\* The caller of the sequential specification.
SeqProcs == {"p1"}

Names == {"a", "b"}

VARIABLES
    store,      \* committed rows of the entity's table
    nextId,     \* next value of the id sequence
    pc,         \* per caller: position inside the operation
    op,         \* per caller: the public operation called and its arguments
    cur,        \* per caller: the repository method whose body is running
    frame,      \* per caller: locals of the running method (obj, pending work)
    sess,       \* per caller: sessions the running operation holds open
    res,        \* per caller: what the operation returned or raised
    prev,       \* observer: the last completed mutating call
    before      \* observer: the stored rows when the last call started

vars == <<store, nextId, pc, op, cur, frame, sess, res, prev, before>>

\* ------------------------------------------------------------ entities
NoEntity == [id |-> 0, name |-> "", flag |-> FALSE]

\* Keyword arguments: the keys in call order, and the value of each key
\* (a key that is not passed keeps the filler value).
Kw(keys, id, name, flag) == [keys |-> keys, id |-> id, name |-> name, flag |-> flag]
NoKw == Kw(<<>>, 0, "", FALSE)

KeySet(kw) == {kw.keys[i] : i \in 1..Len(kw.keys)}

\* create / get_or_create: a name; the flag takes its default.
CreateKw == {Kw(<<"name">>, 0, n, FALSE) : n \in Names}

\* get: the fields a create was given, or an id.
GetKw == CreateKw \cup {Kw(<<"id">>, i, "", FALSE) : i \in 1..MaxId}

\* get_all / filter: no filter, or a name.
ListKw == {NoKw, Kw(<<"name">>, 0, "a", FALSE)}

\* update: no field, one field, two fields.
UpdateKw ==
    { NoKw,
      Kw(<<"name">>, 0, "b", FALSE),
      Kw(<<"name", "flag">>, 0, "b", TRUE) }

\* exists: an id, or a call that passes no id.
ExistsKw == {Kw(<<"id">>, i, "", FALSE) : i \in 1..MaxId} \cup {Kw(<<"name">>, 0, "a", FALSE)}

\* ------------------------------------------------------------ results
Pending == [kind |-> "pending", ent |-> NoEntity, created |-> FALSE, flag |-> FALSE,
            list |-> {}, err |-> "None", cause |-> "None", trace |-> <<>>]

RetEntity(e) == [Pending EXCEPT !.kind = "entity", !.ent = e]
RetNone == [Pending EXCEPT !.kind = "none"]
RetPair(e, c) == [Pending EXCEPT !.kind = "pair", !.ent = e, !.created = c]
RetList(l) == [Pending EXCEPT !.kind = "list", !.list = l]
RetBool(b) == [Pending EXCEPT !.kind = "bool", !.flag = b]

\* An exception: its class, its explicit __cause__, and the classes met
\* following __context__ from it down to the first failure.
Exc(kind) == [kind |-> kind, cause |-> "None", trace |-> <<kind>>]
RetError(x) == [Pending EXCEPT !.kind = "error", !.err = x.kind, !.cause = x.cause,
                               !.trace = x.trace]

NoFrame == [obj |-> NoEntity, dirty |-> {}, del |-> {}]
NoCall == [name |-> "none", kw |-> NoKw, obj |-> NoEntity, fresh |-> FALSE, alone |-> FALSE, races |-> FALSE]
NoPrev == [name |-> "none", kw |-> NoKw, obj |-> NoEntity, fresh |-> FALSE, res |-> Pending]


\* ------------------------------------------------------------ statements
\* filter_by(**kwargs): equality on every keyword given.
Matches(r, kw) == \A k \in KeySet(kw) : r[k] = kw[k]

\* select(self.model).filter_by(**kwargs), executed.
Matching(rows, kw) == {r \in rows : Matches(r, kw)}

\* self.model(**kwargs): the transient object; flag defaults to FALSE and the
\* id is generated by the storage on INSERT.
ModelInit(kw) ==
    [id |-> 0,
     name |-> IF "name" \in KeySet(kw) THEN kw.name ELSE "",
     flag |-> IF "flag" \in KeySet(kw) THEN kw.flag ELSE FALSE]

\* Mutant: the first row is taken when several match (Result.first()).
ScalarFirst(rows) == IF rows = {} THEN "none" ELSE "one"

\* Result.scalar_one_or_none(): None for no row, the row for one row,
\* MultipleResultsFound for more.
ScalarOneOrNone(rows) ==
    IF rows = {} THEN "none" ELSE IF Cardinality(rows) = 1 THEN "one" ELSE "multi"

\* select(exists().where(self.model.id == kwargs['id'])): always exactly one
\* row, holding the truth value of the subquery.
ExistsRows(rows, kw) == {(\E r \in rows : r.id = kw.id)}

\* result.scalar_one_or_none() is not None
ExistsValue(rows, kw) == ScalarOneOrNone(ExistsRows(rows, kw)) # "none"

\* Mutant: the entity is created whether or not _get found one.
NeedsCreateAlways(found) == TRUE

\* `if not obj:` of _create_if_not_exists, on what _get returned.
NeedsCreate(found) == found = "none"

\* `created = False` ... `return obj, created` when _get found the entity.
Found(row) == RetPair(row, FALSE)

\* Mutant: `created = True` is left out after the create.
CreatedFlagLost(row) == RetPair(row, FALSE)

\* `obj = await self._create(**kwargs); created = True; return obj, created`
Created(row) == RetPair(row, TRUE)

\* The for loop of _update: its body ends in `return obj`, so of the keyword
\* arguments only the first is ever reached.
LoopKeys(kw) == IF kw.keys = <<>> THEN <<>> ELSE <<Head(kw.keys)>>

\* setattr(obj, key, value) for the keys the loop reaches.
SetAttrs(obj, kw) ==
    [id |-> obj.id,
     name |-> IF "name" \in {LoopKeys(kw)[i] : i \in 1..Len(LoopKeys(kw))}
              THEN kw.name ELSE obj.name,
     flag |-> IF "flag" \in {LoopKeys(kw)[i] : i \in 1..Len(LoopKeys(kw))}
              THEN kw.flag ELSE obj.flag]

\* The attributes with a net change: the columns the flush puts in UPDATE.
DirtyKeys(old, new) == {k \in {"name", "flag"} : old[k] # new[k]}

\* UPDATE ... SET <dirty columns> WHERE id = obj.id, on the committed row.
Flush(row, obj, dirty) ==
    [id |-> row.id,
     name |-> IF "name" \in dirty THEN obj.name ELSE row.name,
     flag |-> IF "flag" \in dirty THEN obj.flag ELSE row.flag]

\* The object once flushed: the id column takes the next value of the sequence.
Persisted(obj, id) == [obj EXCEPT !.id = id]

\* session.add(obj); commit: INSERT of the flushed object.
Inserted(rows, obj, id) == rows \cup {Persisted(obj, id)}

\* Mutant: the DELETE is keyed on the name instead of the id.
DeletedByName(rows, obj) == {r \in rows : r.name # obj.name}

\* session.delete(obj); commit: DELETE ... WHERE id = obj.id.
Deleted(rows, obj) == {r \in rows : r.id # obj.id}

\* Mutant: the statement removes one row only.
DeleteStmtOne(rows) == IF rows = {} THEN {} ELSE {(CHOOSE r \in rows : TRUE).id}

\* delete(self.model), executed: the rows the statement removes.
DeleteStmt(rows) == {r.id : r \in rows}

\* Mutant: the session is left open when the block is left.
AExitLeak(n) == n

\* `async with self._session_factory() as session`: leaving the block, by
\* return or by exception, closes the session.
AExit(n) == n - 1

\* sqlalchemy.exc.DatabaseError is a DBAPIError, constructed as
\* DBAPIError(statement, params, orig, ...): three positional arguments are
\* required, fewer is a TypeError raised by the call itself.
DatabaseErrorInit(nargs) == nargs >= 3

\* except Exception as e: raise DatabaseError(f"...") from e
\* The constructor is called with the message alone.  When it raises, the
\* raise statement never runs: the TypeError escapes with e as its implicit
\* __context__ and no __cause__.
Wrap(e) ==
    IF DatabaseErrorInit(1)
    THEN [kind |-> "DatabaseError", cause |-> e.kind, trace |-> <<"DatabaseError">> \o e.trace]
    ELSE [kind |-> "TypeError", cause |-> "None", trace |-> <<"TypeError">> \o e.trace]

\* What the caller receives: _create_if_not_exists wraps again what the
\* inner _get or _create raised.
Escaped(name, e) == IF name = "get_or_create" THEN Wrap(Wrap(e)) ELSE Wrap(e)

\* The operations that write.
Writers == {"create", "get_or_create", "update", "delete", "delete_all"}

Row(rows, id) == CHOOSE r \in rows : r.id = id
HasRow(rows, id) == \E r \in rows : r.id = id

\* ------------------------------------------------------------ initial state
Init ==
    /\ store = {}
    /\ nextId = 1
    /\ pc = [p \in Procs |-> "idle"]
    /\ op = [p \in Procs |-> NoCall]
    /\ cur = [p \in Procs |-> "none"]
    /\ frame = [p \in Procs |-> NoFrame]
    /\ sess = [p \in Procs |-> 0]
    /\ res = [p \in Procs |-> Pending]
    /\ prev = NoPrev
    /\ before = {}

\* ------------------------------------------------------------ calls
\* A call and its arguments.  Three notes are taken as get_or_create is
\* called: fresh, no stored entity matches its fields; alone, no other
\* caller is inside an operation (the note is dropped when another
\* operation starts); races, another caller is inside a get_or_create with
\* the same fields that was called fresh and is still alone (that call is
\* then noted as racing too).
Call(name, kw, obj) ==
    [name |-> name, kw |-> kw, obj |-> obj, fresh |-> FALSE, alone |-> FALSE, races |-> FALSE]

InGetOrCreate(q, kw) ==
    /\ pc[q] \notin {"idle", "done"}
    /\ op[q].name = "get_or_create"
    /\ op[q].kw = kw
    /\ op[q].fresh
    /\ op[q].alone

Idle(p) == pc[p] = "idle"

\* Inserts called and not yet committed (each will take an id).
InFlightInserts ==
    Cardinality({q \in Procs : /\ pc[q] \in {"open", "exec", "commit"}
                               /\ op[q].name \in {"create", "get_or_create"}})

Start(p, c) ==
    /\ Idle(p)
    /\ op' = [q \in Procs |->
                IF q = p THEN c
                ELSE IF c.races /\ InGetOrCreate(q, c.kw)
                     THEN [op[q] EXCEPT !.races = TRUE]
                     ELSE [op[q] EXCEPT !.alone = FALSE]]
    /\ cur' = [cur EXCEPT ![p] = IF c.name = "get_or_create" THEN "get" ELSE c.name]
    /\ pc' = [pc EXCEPT ![p] = "open"]
    /\ res' = [res EXCEPT ![p] = Pending]
    /\ frame' = [frame EXCEPT ![p] = NoFrame]
    /\ UNCHANGED <<store, nextId, sess>>

Create(p) ==
    /\ nextId + InFlightInserts <= MaxId
    /\ \E kw \in CreateKw : Start(p, Call("create", kw, NoEntity))

Get(p) == \E kw \in GetKw : Start(p, Call("get", kw, NoEntity))

CreateIfNotExists(p) ==
    /\ nextId + InFlightInserts <= MaxId
    /\ \E kw \in CreateKw :
          Start(p, [Call("get_or_create", kw, NoEntity)
                        EXCEPT !.fresh = (Matching(store, kw) = {}),
                               !.alone = \A q \in Procs \ {p} : pc[q] \in {"idle", "done"},
                               !.races = \E q \in Procs \ {p} : InGetOrCreate(q, kw)])

GetAll(p) == \E kw \in ListKw : Start(p, Call("get_all", kw, NoEntity))

Filter(p) == \E kw \in ListKw : Start(p, Call("filter", kw, NoEntity))

\* The entity passed in is one the caller loaded: a row as currently stored.
Update(p) == \E obj \in store, kw \in UpdateKw : Start(p, Call("update", kw, obj))

Delete(p) == \E obj \in store : Start(p, Call("delete", NoKw, obj))

Exists(p) == \E kw \in ExistsKw : Start(p, Call("exists", kw, NoEntity))

DeleteAll(p) == Start(p, Call("delete_all", NoKw, NoEntity))


\* ------------------------------------------------------------ steps
\* The running method goes on to its next await.
Stay(p, label, f, n) ==
    /\ pc' = [pc EXCEPT ![p] = label]
    /\ frame' = [frame EXCEPT ![p] = f]
    /\ sess' = [sess EXCEPT ![p] = n]
    /\ UNCHANGED <<op, cur, res>>

\* The operation ends with r, returned or raised, holding n sessions.
Finish(p, r, n) ==
    /\ pc' = [pc EXCEPT ![p] = "done"]
    /\ frame' = [frame EXCEPT ![p] = NoFrame]
    /\ sess' = [sess EXCEPT ![p] = n]
    /\ res' = [res EXCEPT ![p] = r]
    /\ cur' = [cur EXCEPT ![p] = "none"]
    /\ UNCHANGED op

\* An exception of class kind leaves the running method: through its except
\* clause, and through that of _create_if_not_exists when it is the caller.
Raise(p, kind, n) == Finish(p, RetError(Escaped(op[p].name, Exc(kind))), n)

\* _create_if_not_exists: _get returned None, _create is called.
CallCreate(p, n) ==
    /\ pc' = [pc EXCEPT ![p] = "open"]
    /\ cur' = [cur EXCEPT ![p] = "create"]
    /\ frame' = [frame EXCEPT ![p] = NoFrame]
    /\ sess' = [sess EXCEPT ![p] = n]
    /\ UNCHANGED <<op, res>>

\* async with self._session_factory() as session: ...up to the first await.
SessionOpen(p) ==
    /\ pc[p] = "open"
    /\ UNCHANGED <<store, nextId>>
    /\ LET m == cur[p]
           kw == op[p].kw
           n == sess[p] + 1
       IN  CASE m = "create" ->
                  Stay(p, "commit", [NoFrame EXCEPT !.obj = ModelInit(kw)], n)
             [] m \in {"get", "get_all", "filter", "delete_all"} ->
                  Stay(p, "exec", NoFrame, n)
             [] m = "exists" ->
                  IF "id" \in KeySet(kw)
                  THEN Stay(p, "exec", NoFrame, n)
                  ELSE Raise(p, "KeyError", AExit(n))
             [] m = "update" ->
                  IF LoopKeys(kw) = <<>>
                  THEN Finish(p, RetNone, AExit(n))
                  ELSE Stay(p, "commit",
                            [NoFrame EXCEPT !.obj = SetAttrs(op[p].obj, kw),
                                            !.dirty = DirtyKeys(op[p].obj, SetAttrs(op[p].obj, kw))],
                            n)
             [] m = "delete" ->
                  Stay(p, "delete", [NoFrame EXCEPT !.obj = op[p].obj], n)

\* self._session_factory() or entering the session raises.
SessionOpenFail(p) ==
    /\ pc[p] = "open"
    /\ UNCHANGED <<store, nextId>>
    /\ Raise(p, "OperationalError", sess[p])

\* await session.delete(obj)
SessionDelete(p) ==
    /\ pc[p] = "delete"
    /\ UNCHANGED <<store, nextId>>
    /\ Stay(p, "commit", frame[p], sess[p])

SessionDeleteFail(p) ==
    /\ pc[p] = "delete"
    /\ UNCHANGED <<store, nextId>>
    /\ Raise(p, "OperationalError", AExit(sess[p]))

\* await session.execute(...) and what the method does with the result.
Execute(p) ==
    /\ pc[p] = "exec"
    /\ UNCHANGED <<store, nextId>>
    /\ LET m == cur[p]
           kw == op[p].kw
           rows == Matching(store, kw)
           found == ScalarOneOrNone(rows)
           n == AExit(sess[p])
       IN  CASE m = "get" ->
                  IF found = "multi"
                  THEN Raise(p, "MultipleResultsFound", n)
                  ELSE IF op[p].name = "get_or_create"
                       THEN IF NeedsCreate(found)
                            THEN CallCreate(p, n)
                            ELSE Finish(p, Found(CHOOSE r \in rows : TRUE), n)
                       ELSE IF found = "none"
                            THEN Finish(p, RetNone, n)
                            ELSE Finish(p, RetEntity(CHOOSE r \in rows : TRUE), n)
             [] m \in {"get_all", "filter"} -> Finish(p, RetList(rows), n)
             [] m = "exists" -> Finish(p, RetBool(ExistsValue(store, kw)), n)
             [] m = "delete_all" ->
                  Stay(p, "commit", [NoFrame EXCEPT !.del = DeleteStmt(store)], sess[p])

ExecuteFail(p) ==
    /\ pc[p] = "exec"
    /\ UNCHANGED <<store, nextId>>
    /\ Raise(p, "OperationalError", AExit(sess[p]))

\* await session.commit()
Commit(p) ==
    /\ pc[p] = "commit"
    /\ LET m == cur[p]
           obj == frame[p].obj
       IN  CASE m = "create" ->
                  /\ store' = Inserted(store, obj, nextId)
                  /\ nextId' = nextId + 1
                  /\ Stay(p, "refresh", [frame[p] EXCEPT !.obj = Persisted(obj, nextId)], sess[p])
             [] m = "update" ->
                  IF frame[p].dirty = {}
                  THEN /\ UNCHANGED <<store, nextId>>
                       /\ Stay(p, "refresh", frame[p], sess[p])
                  ELSE IF HasRow(store, obj.id)
                       THEN /\ store' = (store \ {Row(store, obj.id)})
                                           \cup {Flush(Row(store, obj.id), obj, frame[p].dirty)}
                            /\ UNCHANGED nextId
                            /\ Stay(p, "refresh", frame[p], sess[p])
                       ELSE /\ UNCHANGED <<store, nextId>>
                            /\ Raise(p, "StaleDataError", AExit(sess[p]))
             [] m = "delete" ->
                  /\ store' = Deleted(store, obj)
                  /\ UNCHANGED nextId
                  /\ Finish(p, RetNone, AExit(sess[p]))
             [] m = "delete_all" ->
                  /\ store' = {r \in store : r.id \notin frame[p].del}
                  /\ UNCHANGED nextId
                  /\ Finish(p, RetNone, AExit(sess[p]))

CommitFail(p) ==
    /\ pc[p] = "commit"
    /\ UNCHANGED <<store, nextId>>
    /\ Raise(p, "OperationalError", AExit(sess[p]))

\* await session.refresh(obj); return obj
Refresh(p) ==
    /\ pc[p] = "refresh"
    /\ UNCHANGED <<store, nextId>>
    /\ LET id == frame[p].obj.id
           n == AExit(sess[p])
       IN  IF HasRow(store, id)
           THEN IF op[p].name = "get_or_create"
                THEN Finish(p, Created(Row(store, id)), n)
                ELSE Finish(p, RetEntity(Row(store, id)), n)
           ELSE Raise(p, "InvalidRequestError", n)

RefreshFail(p) ==
    /\ pc[p] = "refresh"
    /\ UNCHANGED <<store, nextId>>
    /\ Raise(p, "OperationalError", AExit(sess[p]))

\* The caller has received the result or the exception; the coroutine is gone.
Return(p) ==
    /\ pc[p] = "done"
    /\ pc' = [pc EXCEPT ![p] = "idle"]
    /\ op' = [op EXCEPT ![p] = NoCall]
    /\ res' = [res EXCEPT ![p] = Pending]
    /\ UNCHANGED <<store, nextId, cur, frame, sess>>

\* ------------------------------------------------------------ specifications
\* The observer variables take no part in the program.
Unobserved == UNCHANGED <<prev, before>>

\* Concurrent callers of one repository instance.
Next ==
    \E p \in Procs :
        \/ Create(p) /\ Unobserved
        \/ Get(p) /\ Unobserved
        \/ CreateIfNotExists(p) /\ Unobserved
        \/ GetAll(p) /\ Unobserved
        \/ Update(p) /\ Unobserved
        \/ Delete(p) /\ Unobserved
        \/ Exists(p) /\ Unobserved
        \/ Filter(p) /\ Unobserved
        \/ DeleteAll(p) /\ Unobserved
        \/ SessionOpen(p) /\ Unobserved
        \/ SessionOpenFail(p) /\ Unobserved
        \/ SessionDelete(p) /\ Unobserved
        \/ SessionDeleteFail(p) /\ Unobserved
        \/ Execute(p) /\ Unobserved
        \/ ExecuteFail(p) /\ Unobserved
        \/ Commit(p) /\ Unobserved
        \/ CommitFail(p) /\ Unobserved
        \/ Refresh(p) /\ Unobserved
        \/ RefreshFail(p) /\ Unobserved
        \/ Return(p) /\ Unobserved

Spec == Init /\ [][Next]_vars

\* What the observer keeps of the call p has completed: the last writing call.
Completed(p) ==
    IF op[p].name \in Writers
    THEN [name |-> op[p].name, kw |-> op[p].kw, obj |-> op[p].obj,
          fresh |-> op[p].fresh, res |-> res[p]]
    ELSE prev

\* A call starts: the observer notes the stored rows.
Started(p) == before' = store /\ UNCHANGED prev

\* A call has completed: the observer notes it when it is a writing call.
Ended(p) == prev' = Completed(p) /\ UNCHANGED before

\* One caller, one operation at a time.
SeqNext ==
    \E p \in SeqProcs :
        \/ Create(p) /\ Started(p)
        \/ Get(p) /\ Started(p)
        \/ CreateIfNotExists(p) /\ Started(p)
        \/ GetAll(p) /\ Started(p)
        \/ Update(p) /\ Started(p)
        \/ Delete(p) /\ Started(p)
        \/ Exists(p) /\ Started(p)
        \/ Filter(p) /\ Started(p)
        \/ DeleteAll(p) /\ Started(p)
        \/ SessionOpen(p) /\ Unobserved
        \/ SessionOpenFail(p) /\ Unobserved
        \/ SessionDelete(p) /\ Unobserved
        \/ SessionDeleteFail(p) /\ Unobserved
        \/ Execute(p) /\ Unobserved
        \/ ExecuteFail(p) /\ Unobserved
        \/ Commit(p) /\ Unobserved
        \/ CommitFail(p) /\ Unobserved
        \/ Refresh(p) /\ Unobserved
        \/ RefreshFail(p) /\ Unobserved
        \/ Return(p) /\ Ended(p)

SeqSpec == Init /\ [][SeqNext]_vars


\* ------------------------------------------------------------ properties
Done(p) == pc[p] = "done"
Raised(r) == r.kind = "error"

\* The first failure was one of the driver (connection, statement, commit or
\* reload failing), not one the repository's own logic produced.
DriverFault(r) == Raised(r) /\ r.trace[Len(r.trace)] = "OperationalError"

\* C1: an update given N >= 1 field values returns an entity carrying every
\* one of them and stores every one of them, and a later get on the id
\* returns an entity carrying every one of them.
C1_UpdateAppliesAllFields ==
    \A p \in Procs :
        /\ (Done(p) /\ op[p].name = "update" /\ Len(op[p].kw.keys) >= 1 /\ ~Raised(res[p]))
              => /\ res[p].kind = "entity"
                 /\ \A k \in KeySet(op[p].kw) : res[p].ent[k] = op[p].kw[k]
                 /\ HasRow(store, op[p].obj.id)
                 /\ \A k \in KeySet(op[p].kw) : Row(store, op[p].obj.id)[k] = op[p].kw[k]
        /\ (/\ Done(p) /\ op[p].name = "get" /\ res[p].kind = "entity"
            /\ prev.name = "update" /\ prev.res.kind = "entity"
            /\ op[p].kw.keys = <<"id">> /\ op[p].kw.id = prev.obj.id)
              => \A k \in KeySet(prev.kw) : res[p].ent[k] = prev.kw[k]

\* C2: exists(id = x) returns true exactly when an entity with id x is stored.
C2_ExistsIffStored ==
    \A p \in Procs :
        (Done(p) /\ op[p].name = "exists" /\ res[p].kind = "bool")
            => (res[p].flag <=> HasRow(store, op[p].kw.id))

\* C3: a mutating operation that raises leaves the stored entities exactly as
\* they were when it was called (an error never follows a successful commit).
C3_RaiseLeavesStoreUnchanged ==
    \A p \in Procs :
        (Done(p) /\ op[p].name \in {"create", "update", "delete", "delete_all"}
                 /\ Raised(res[p]))
            => store = before

\* C4: of two get_or_create calls in sequence with identical fields, the
\* first on a store with no matching entity, the first reports was_created
\* true, the second reports false with the first call's entity, and exactly
\* one matching entity is stored.
C4_GetOrCreateTwice ==
    \A p \in Procs :
        (/\ Done(p) /\ op[p].name = "get_or_create" /\ ~Raised(res[p])
         /\ prev.name = "get_or_create" /\ prev.kw = op[p].kw
         /\ prev.fresh /\ ~Raised(prev.res))
            => /\ prev.res.created
               /\ ~res[p].created
               /\ res[p].ent.id = prev.res.ent.id
               /\ Cardinality(Matching(store, op[p].kw)) = 1

C4_Witness ==
    \E p \in Procs :
        /\ Done(p) /\ op[p].name = "get_or_create" /\ res[p].kind = "pair"
        /\ prev.name = "get_or_create" /\ prev.kw = op[p].kw
        /\ prev.fresh /\ prev.res.kind = "pair"
        /\ ~res[p].created /\ res[p].ent = prev.res.ent

\* C5 as claimed: a get with the fields a create was given returns an entity
\* equal in those fields, never absence and never an error, also when an
\* earlier create was given the same fields (the driver not failing).
C5_GetAfterCreateAlwaysFinds ==
    \A p \in Procs :
        (/\ Done(p) /\ op[p].name = "get" /\ ~DriverFault(res[p])
         /\ prev.name = "create" /\ prev.res.kind = "entity" /\ prev.kw = op[p].kw)
            => /\ res[p].kind = "entity"
               /\ Matches(res[p].ent, op[p].kw)

\* C5 as amended: the get returns the created entity when it is the only
\* stored entity matching the fields; when an earlier create was given the
\* same fields, so that several match, the get raises an error.
C5_GetAfterCreateUnique ==
    \A p \in Procs :
        (/\ Done(p) /\ op[p].name = "get" /\ ~DriverFault(res[p])
         /\ prev.name = "create" /\ prev.res.kind = "entity" /\ prev.kw = op[p].kw)
            => IF Cardinality(Matching(store, op[p].kw)) = 1
               THEN /\ res[p].kind = "entity"
                    /\ res[p].ent = prev.res.ent
                    /\ Matches(res[p].ent, op[p].kw)
               ELSE /\ Cardinality(Matching(store, op[p].kw)) > 1
                    /\ Raised(res[p])

C5_Witness ==
    \E p \in Procs :
        /\ Done(p) /\ op[p].name = "get" /\ res[p].kind = "entity"
        /\ prev.name = "create" /\ prev.res.kind = "entity" /\ prev.kw = op[p].kw
        /\ res[p].ent = prev.res.ent
        /\ Cardinality(store) = 2

\* C6: whatever step fails, the caller receives Storage Operation Failed
\* (DatabaseError) chained from the original cause, and no other error kind.
C6_OnlyStorageErrorEscapes ==
    \A p \in Procs :
        (Done(p) /\ Raised(res[p]))
            => /\ res[p].err = "DatabaseError"
               /\ res[p].cause # "None"

\* C7: an operation in flight holds at most one open session, its own, and
\* holds none once it has returned or raised: when no operation is in
\* flight no session is open.
C7_SessionScoped ==
    \A p \in Procs :
        /\ sess[p] \in {0, 1}
        /\ pc[p] \in {"idle", "open", "done"} => sess[p] = 0
        /\ pc[p] \in {"delete", "exec", "commit", "refresh"} => sess[p] = 1

C7_Witness ==
    \E p \in Procs, q \in Procs :
        /\ p # q
        /\ Done(p) /\ Raised(res[p])
        /\ res[p].trace[Len(res[p].trace)] \in {"KeyError", "MultipleResultsFound", "StaleDataError"}
        /\ sess[p] = 0
        /\ pc[q] = "commit" /\ sess[q] = 1

\* C8: after delete(entity) has returned, the other stored entities are as
\* they were, and a get whose filter matched only that entity returns
\* absence, not an error.
C8_DeleteThenGet ==
    \A p \in Procs :
        /\ (Done(p) /\ op[p].name = "delete" /\ ~Raised(res[p]))
              => store = before \ {op[p].obj}
        /\ (/\ Done(p) /\ op[p].name = "get" /\ ~DriverFault(res[p])
            /\ prev.name = "delete" /\ ~Raised(prev.res)
            /\ Matches(prev.obj, op[p].kw)
            /\ \A r \in store : Matches(r, op[p].kw) => r.id = prev.obj.id)
              => res[p].kind = "none"

C8_Witness ==
    \E p \in Procs :
        /\ Done(p) /\ op[p].name = "get" /\ res[p].kind = "none"
        /\ prev.name = "delete" /\ ~Raised(prev.res)
        /\ Matches(prev.obj, op[p].kw)
        /\ store # {}

\* C9: after delete_all has returned nothing is stored, and get_all with no
\* filter returns an empty collection until the next writing call.
C9_DeleteAllThenGetAll ==
    \A p \in Procs :
        /\ (Done(p) /\ op[p].name = "delete_all" /\ ~Raised(res[p])) => store = {}
        /\ (/\ Done(p) /\ op[p].name = "get_all" /\ op[p].kw = NoKw /\ ~DriverFault(res[p])
            /\ prev.name = "delete_all" /\ ~Raised(prev.res))
              => res[p].kind = "list" /\ res[p].list = {}

C9_Witness ==
    \E p \in Procs :
        /\ Done(p) /\ op[p].name = "get_all" /\ op[p].kw = NoKw
        /\ res[p].kind = "list" /\ res[p].list = {}
        /\ prev.name = "delete_all" /\ ~Raised(prev.res)
        /\ nextId = MaxId + 1

\* Two finished get_or_create calls of different callers, with identical
\* fields, each called when no stored entity matched them, the second
\* called while the first was running, and no other operation running
\* from the first call on.
RacingPair(p, q) ==
    /\ p # q
    /\ Done(p) /\ Done(q)
    /\ op[p].name = "get_or_create" /\ op[q].name = "get_or_create"
    /\ op[p].kw = op[q].kw
    /\ op[p].fresh /\ op[q].fresh
    /\ op[p].races /\ op[q].races
    /\ op[p].alone \/ op[q].alone

\* C10 as claimed: of two concurrent get_or_create calls with identical
\* fields on a store with no matching entity, at most one reports
\* was_created true and at most one matching entity is stored.
C10_AtMostOneCreates ==
    \A p \in Procs, q \in Procs :
        RacingPair(p, q)
            => /\ ~(res[p].created /\ res[q].created)
               /\ Cardinality(Matching(store, op[p].kw)) <= 1

\* C10 as amended: both calls may report was_created true; then each has
\* inserted its own entity, two matching entities are stored and a get with
\* those fields finds more than one row.  A call that reports was_created
\* false returns the one matching entity stored, the one the other call
\* inserted.
C10_EachCreatorInserts ==
    \A p \in Procs, q \in Procs :
        RacingPair(p, q)
            => /\ (res[p].created /\ res[q].created)
                    => /\ res[p].ent.id # res[q].ent.id
                       /\ Matching(store, op[p].kw) = {res[p].ent, res[q].ent}
                       /\ ScalarOneOrNone(Matching(store, op[p].kw)) = "multi"
               /\ (res[p].kind = "pair" /\ ~res[p].created)
                    => /\ Matching(store, op[p].kw) = {res[p].ent}
                       /\ res[q].created => res[q].ent = res[p].ent

C10_Witness ==
    \E p \in Procs, q \in Procs :
        /\ RacingPair(p, q)
        /\ res[p].created /\ res[q].created
        /\ res[p].ent.id # res[q].ent.id

====
